---- MODULE Spec2Model ----
(***************************************************************************)
(* Zendesk Help Center exporter (download-data-api.py, class               *)
(* ZendeskExporter): the paginated fetcher with its rate-limit retry, the  *)
(* attachment resolver and the export orchestrator, as one sequential      *)
(* state machine.  The server is the environment: every response (status,  *)
(* Retry-After header, JSON body, next_page cursor, download outcome) is   *)
(* chosen nondeterministically.  One action runs the program from one      *)
(* blocking point (a GET or a sleep) to the next.                          *)
(***************************************************************************)
EXTENDS Integers, Sequences, FiniteSets, TLC

VARIABLES
    pc,                 \* control point of the run
    stage,              \* the export_* method being executed
    url,                \* get_all_paginated: local `url` (the page cursor)
    all_items,          \* get_all_paginated: local `all_items`
    retry_after,        \* make_request: local `retry_after` while sleeping
    categories,         \* export_all: local `categories`
    sections,           \* export_all: local `sections`
    articles,           \* export_articles: local `articles`
    ai,                 \* export_articles: position of `article` in `articles`
    si,                 \* export_articles: position of `attachment` in article['attachments']
    ii,                 \* extract_attachments_from_html: enumerate index i (0-based)
    attachments,        \* extract_attachments_from_html: local `attachments`
    total_attachments,  \* export_articles: local `total_attachments`
    manifest,           \* export_all: local `manifest`
    files,              \* the export directory: path -> content last written
    writes,             \* history: the paths written, in order
    reqLog,             \* history: the GETs of the current get_all_paginated run with their
                        \*   answers; in export_themes, the latest GET and its answer
    downloads,          \* history: the download attempts, in order
    since,              \* history: the latest page request's outcome and the sleeps since
    gap                 \* history: `since` as it stood when the latest GET was issued

vars == << pc, stage, url, all_items, retry_after, categories, sections, articles,
           ai, si, ii, attachments, total_attachments, manifest, files, writes,
           reqLog, downloads, since, gap >>

-----------------------------------------------------------------------------
(* Bounds of the model *)

\* requests one get_all_paginated run may issue
MaxReqs == 3
\* items the server serves in total to one get_all_paginated run
MaxItems == 2

-----------------------------------------------------------------------------
(* Values *)

\* Python's None
None == "None"
\* an empty JSON object {}
EmptyDict == [f \in {} |-> 0]

subdomain == "userology"
export_dir == "zendesk_export_" \o subdomain
hc_base_url == "https://" \o subdomain \o ".zendesk.com/api/v2/help_center"

Listings == {"categories", "sections", "articles"}

\* f"{self.hc_base_url}/{endpoint}"
EndpointUrl(endpoint) == hc_base_url \o "/" \o endpoint

\* the values a server may put in next_page: null, or the URL of the second page
\* (sent with the second page itself, that is a cursor that does not advance)
Cursors(endpoint) == {None, EndpointUrl(endpoint) \o "?page=2"}

\* the fallback of response.headers.get('Retry-After', 60)
DefaultRetryAfter == 60

\* Retry-After header values: absent, delay-seconds, an HTTP-date (RFC 9110 allows both)
NoHeader == "absent"
HttpDate == "Wed, 21 Oct 2026 07:28:00 GMT"
RetryAfterHeaders == {NoHeader, "5", HttpDate}

SupportHost == "support.userology.co"
OtherHost == "cdn.example.com"

\* markup tokens of an article body: an <img src=URL alt=NAME> tag, an <a href=URL> link
Img(host, id, alt) == [tag |-> "img", host |-> host, id |-> id, alt |-> alt]
Link(host, id) == [tag |-> "a", host |-> host, id |-> id]

\* The article records the server may list.  Art1: two structured attachments with
\* the same declared file_name, no body.  Art2: one structured attachment and a body
\* that references attachment 5 twice (an image with alt text, then a link) and
\* links to another host.
Art1 ==
    [id |-> 1,
     attachments |-> << [file_name |-> "image.png", content_url |-> "https://cdn.example.com/a/11"],
                        [file_name |-> "image.png", content_url |-> "https://cdn.example.com/a/12"] >>]
Art2 ==
    [id |-> 2,
     attachments |-> << [file_name |-> "doc.pdf", content_url |-> "https://cdn.example.com/a/21"] >>,
     body |-> << Img(SupportHost, "5", "shot.png"), Link(OtherHost, "9"),
                 Link(SupportHost, "5") >>]

ItemUniverse(endpoint) ==
    CASE endpoint = "categories" -> {[id |-> 100]}
      [] endpoint = "sections"   -> {[id |-> 200]}
      [] endpoint = "articles"   -> {Art1, Art2}

\* sequences over S of length at most n
RECURSIVE SeqsUpTo(_, _)
SeqsUpTo(S, n) ==
    IF n <= 0 THEN {<<>>}
    ELSE LET shorter == SeqsUpTo(S, n - 1)
         IN  shorter \cup {Append(s, x) : s \in {t \in shorter : Len(t) = n - 1}, x \in S}

\* JSON bodies of a listing page: any subset of the fields {key, next_page}
PageBodies(endpoint, room) ==
    LET key   == endpoint
        pages == SeqsUpTo(ItemUniverse(endpoint), room)
    IN  {EmptyDict}
        \cup {(key :> p) : p \in pages}
        \cup {("next_page" :> n) : n \in Cursors(endpoint)}
        \cup {(key :> p) @@ ("next_page" :> n) : p \in pages, n \in Cursors(endpoint)}

ThemeBodies == {EmptyDict, [themes |-> << [id |-> 900] >>]}

\* What session.get can produce: a connection error (status 0), or an HTTP response
NetworkError == [status |-> 0, header |-> NoHeader, body |-> EmptyDict]
Responses(bodies) ==
    {NetworkError}
    \cup {[status |-> 500, header |-> NoHeader, body |-> EmptyDict]}
    \cup {[status |-> 429, header |-> h, body |-> EmptyDict] : h \in RetryAfterHeaders}
    \cup {[status |-> 200, header |-> NoHeader, body |-> b] : b \in bodies}

-----------------------------------------------------------------------------
(* Pure parts of the code *)

\* int(s) for the header strings used here; any other string raises ValueError
IntLiterals == ("5" :> 5)

\* make_request with the 429 branch lost: a 429 goes to raise_for_status and is
\* reported as a failure
make_request_NoRetry(resp) ==
    IF resp.status = 0 \/ resp.status >= 400 THEN [kind |-> "None"]
    ELSE [kind |-> "json", data |-> resp.body]

\* make_request without the except clause: a failed request raises
make_request_FailureRaises(resp) ==
    IF resp.status = 0 THEN [kind |-> "raise"]
    ELSE IF resp.status = 429 THEN
        IF resp.header = NoHeader THEN [kind |-> "retry", wait |-> DefaultRetryAfter]
        ELSE IF resp.header \in DOMAIN IntLiterals
             THEN [kind |-> "retry", wait |-> IntLiterals[resp.header]]
             ELSE [kind |-> "raise"]
    ELSE IF resp.status >= 400 THEN [kind |-> "raise"]
    ELSE [kind |-> "json", data |-> resp.body]

\* make_request, one invocation: what the GET's response makes it do.
\*   "retry": status 429, sleep `wait` and call make_request(url) again
\*   "raise": int() of the Retry-After header raised ValueError, which the
\*            except clause for RequestException does not catch
\*   "None":  a RequestException (connection error, raise_for_status) was caught
\*   "json":  the decoded body is returned
make_request(resp) ==
    IF resp.status = 0 THEN [kind |-> "None"]
    ELSE IF resp.status = 429 THEN
        IF resp.header = NoHeader THEN [kind |-> "retry", wait |-> DefaultRetryAfter]
        ELSE IF resp.header \in DOMAIN IntLiterals
             THEN [kind |-> "retry", wait |-> IntLiterals[resp.header]]
             ELSE [kind |-> "raise"]
    ELSE IF resp.status >= 400 THEN [kind |-> "None"]
    ELSE [kind |-> "json", data |-> resp.body]

\* `data is None` in place of `not data`: no decoded JSON object ends the loop
Falsy_Never(data) == FALSE

\* `not data` for a decoded JSON object
Falsy(data) == DOMAIN data = {}

\* the page's items in reverse order
PageItems_Reversed(data, key) ==
    IF key \in DOMAIN data
    THEN [n \in 1..Len(data[key]) |-> data[key][Len(data[key]) + 1 - n]]
    ELSE <<>>

\* data.get(key, [])
PageItems(data, key) == IF key \in DOMAIN data THEN data[key] ELSE <<>>

\* data.get('next'): the cursor is read under a key the API does not use
NextPage_WrongKey(data) == IF "next" \in DOMAIN data THEN data["next"] ELSE None

\* data.get('next_page')
NextPage(data) == IF "next_page" \in DOMAIN data THEN data["next_page"] ELSE None

\* `while url:`
UrlTruthy(u) == u # None /\ u # ""

\* download_attachment without raise_for_status: a path is returned whatever the status
download_attachment_IgnoresFailure(resp, filename) ==
    export_dir \o "/attachments/" \o filename

\* download_attachment: the returned filepath, or None when the GET, the status
\* check or the write raised
download_attachment(resp, filename) ==
    IF resp.status = 200 THEN export_dir \o "/attachments/" \o filename ELSE None

\* the bytes an attachment URL serves
ContentOf(attachment_url) == "bytes of " \o attachment_url
DownloadResponses == {[status |-> 200], [status |-> 404], [status |-> 0]}

\* article.get(field) is truthy (a non-empty list)
HasList(article, field) == field \in DOMAIN article /\ Len(article[field]) > 0

\* article['attachments'] as iterated by export_articles
StructuredRefs(article) ==
    IF HasList(article, "attachments") THEN article.attachments ELSE <<>>

\* f"{article['id']}_{attachment['file_name']}"
StructuredFilename(article, attachment) ==
    ToString(article.id) \o "_" \o attachment.file_name

\* re.findall(pattern, html_content): the ids of the URLs on the support host, in order
RECURSIVE Matches(_)
Matches(html) ==
    IF html = <<>> THEN <<>>
    ELSE IF Head(html).host = SupportHost
         THEN <<Head(html).id>> \o Matches(Tail(html))
         ELSE Matches(Tail(html))

\* f"https://support.userology.co/hc/article_attachments/{attachment_id}"
AttachmentUrl(attachment_id) ==
    "https://" \o SupportHost \o "/hc/article_attachments/" \o attachment_id

\* re.search(img_pattern, html_content): the alt text of the first <img> whose src
\* is this URL, else f"attachment_{attachment_id}"
OriginalFilename(html, attachment_id) ==
    LET hits == SelectSeq(html, LAMBDA t : t.tag = "img" /\ t.host = SupportHost
                                            /\ t.id = attachment_id)
    IN  IF hits # <<>> THEN Head(hits).alt ELSE "attachment_" \o attachment_id

\* f"{article_id}_{i}_{original_filename}": the sequence number starts at 0
InlineFilename_ZeroBased(article_id, i, original_filename) ==
    ToString(article_id) \o "_" \o ToString(i) \o "_" \o original_filename

\* f"{article_id}_{i+1}_{original_filename}"
InlineFilename(article_id, i, original_filename) ==
    ToString(article_id) \o "_" \o ToString(i + 1) \o "_" \o original_filename

\* open(path, 'w') ... write
WriteFile(fs, path, content) == (path :> content) @@ fs

\* the article being processed, and its body's matches
Article == articles[ai]
Html == IF HasList(Article, "body") THEN Article.body ELSE <<>>

\* entry of get_all_paginated(endpoint, key): url and all_items initialised
EnterListing(endpoint) ==
    /\ stage' = endpoint
    /\ url' = EndpointUrl(endpoint)
    /\ all_items' = <<>>
    /\ reqLog' = <<>>
    /\ pc' = "request"

\* history values: no page request is pending; how a page request was answered
NoPage == [outcome |-> "none", slept |-> <<>>]
Answered(resp) ==
    [outcome |-> CASE resp.status = 429 -> "429"
                   [] resp.status = 200 /\ resp.body # EmptyDict -> "ok"
                   [] resp.status = 200 /\ resp.body = EmptyDict -> "empty"
                   [] OTHER -> "fail",
     slept |-> <<>>]

\* export_themes without its try/except: an exception of make_request ends the run
ThemeOutcomePc_Fatal(r) ==
    IF r.kind = "retry" THEN "backoff"
    ELSE IF r.kind = "raise" THEN "crashed" ELSE "manifest"

\* export_themes: where the run goes with make_request's outcome; an exception is
\* caught by `except Exception` and only logged
ThemeOutcomePc(r) == IF r.kind = "retry" THEN "backoff" ELSE "manifest"

-----------------------------------------------------------------------------
(* The run *)

Init ==
    /\ pc = "start"
    /\ stage = "export_all"
    /\ url = None
    /\ all_items = <<>>
    /\ retry_after = 0
    /\ categories = <<>>
    /\ sections = <<>>
    /\ articles = <<>>
    /\ ai = 0
    /\ si = 0
    /\ ii = 0
    /\ attachments = <<>>
    /\ total_attachments = 0
    /\ manifest = EmptyDict
    /\ files = EmptyDict
    /\ writes = <<>>
    /\ reqLog = <<>>
    /\ downloads = <<>>
    /\ since = NoPage
    /\ gap = NoPage

\* export_all up to the first GET: the manifest dict is created, export_categories
\* calls get_all_paginated("categories", "categories")
ExportAllStart ==
    /\ pc = "start"
    /\ manifest' = [export_date |-> "time at start",
                    subdomain   |-> subdomain,
                    base_url    |-> "https://" \o subdomain \o ".zendesk.com"]
    /\ EnterListing("categories")
    /\ UNCHANGED << retry_after, categories, sections, articles, ai, si, ii, attachments,
                    total_attachments, files, writes, downloads, since, gap >>

\* get_all_paginated: one pass of the while loop, from the GET of make_request(url)
\* to the next sleep, the return or the uncaught exception
FetchPage ==
    /\ pc = "request"
    /\ stage \in Listings
    /\ UrlTruthy(url)
    /\ Len(reqLog) < MaxReqs
    /\ \E resp \in Responses(PageBodies(stage, MaxItems - Len(all_items))) :
        LET r == make_request(resp)
        IN  /\ reqLog' = Append(reqLog, [url |-> url, status |-> resp.status, body |-> resp.body])
            /\ gap' = since
            /\ since' = Answered(resp)
            /\ CASE r.kind = "retry" ->
                     /\ retry_after' = r.wait
                     /\ pc' = "backoff"
                     /\ UNCHANGED << url, all_items >>
                 [] r.kind = "raise" ->
                     /\ pc' = "crashed"
                     /\ UNCHANGED << url, all_items, retry_after >>
                 [] r.kind = "None" ->
                     /\ pc' = "return"
                     /\ UNCHANGED << url, all_items, retry_after >>
                 [] r.kind = "json" /\ Falsy(r.data) ->
                     /\ pc' = "return"
                     /\ UNCHANGED << url, all_items, retry_after >>
                 [] r.kind = "json" /\ ~Falsy(r.data) ->
                     /\ all_items' = all_items \o PageItems(r.data, stage)
                     /\ url' = NextPage(r.data)
                     /\ pc' = "pacing"
                     /\ UNCHANGED retry_after
    /\ UNCHANGED << stage, categories, sections, articles, ai, si, ii, attachments,
                    total_attachments, manifest, files, writes, downloads >>

\* make_request: time.sleep(retry_after) is over; make_request(url, params) is
\* called again with the same url
Backoff ==
    /\ pc = "backoff"
    /\ pc' = "request"
    /\ retry_after' = 0
    /\ since' = [since EXCEPT !.slept = Append(@, "backoff")]
    /\ UNCHANGED << stage, url, all_items, categories, sections, articles, ai, si, ii,
                    attachments, total_attachments, manifest, files, writes, reqLog,
                    downloads, gap >>

\* get_all_paginated: time.sleep(0.1) is over; the loop condition `while url` is
\* evaluated
Pacing ==
    /\ pc = "pacing"
    /\ pc' = IF UrlTruthy(url) THEN "request" ELSE "return"
    /\ since' = [since EXCEPT !.slept = Append(@, "pacing")]
    /\ UNCHANGED << stage, url, all_items, retry_after, categories, sections, articles,
                    ai, si, ii, attachments, total_attachments, manifest, files, writes,
                    reqLog, downloads, gap >>

\* export_categories after get_all_paginated returned: categories.json is written;
\* export_all then calls export_sections
ExportCategoriesWrite ==
    /\ pc = "return"
    /\ stage = "categories"
    /\ categories' = all_items
    /\ files' = WriteFile(files, export_dir \o "/categories.json", all_items)
    /\ writes' = Append(writes, export_dir \o "/categories.json")
    /\ EnterListing("sections")
    /\ UNCHANGED << retry_after, sections, articles, ai, si, ii, attachments,
                    total_attachments, manifest, downloads, since, gap >>

\* export_sections after get_all_paginated returned: sections.json is written;
\* export_all then calls export_articles
ExportSectionsWrite ==
    /\ pc = "return"
    /\ stage = "sections"
    /\ sections' = all_items
    /\ files' = WriteFile(files, export_dir \o "/sections.json", all_items)
    /\ writes' = Append(writes, export_dir \o "/sections.json")
    /\ EnterListing("articles")
    /\ UNCHANGED << retry_after, categories, articles, ai, si, ii, attachments,
                    total_attachments, manifest, downloads, since, gap >>

\* export_articles after get_all_paginated returned: the attachment loop starts
ArticlesFetched ==
    /\ pc = "return"
    /\ stage = "articles"
    /\ articles' = all_items
    /\ total_attachments' = 0
    /\ ai' = 1
    /\ pc' = "article"
    /\ url' = None
    /\ all_items' = <<>>
    /\ reqLog' = <<>>
    /\ UNCHANGED << stage, retry_after, categories, sections, si, ii, attachments,
                    manifest, files, writes, downloads, since, gap >>

\* export_articles: the next `article` of the for loop gets an empty
\* downloaded_attachments list
ArticleBegin ==
    /\ pc = "article"
    /\ ai <= Len(articles)
    /\ articles' = [articles EXCEPT ![ai] = ("downloaded_attachments" :> <<>>) @@ @]
    /\ si' = 1
    /\ pc' = "structured"
    /\ UNCHANGED << stage, url, all_items, retry_after, categories, sections, ai, ii,
                    attachments, total_attachments, manifest, files, writes, reqLog,
                    downloads, since, gap >>

\* export_articles: one structured attachment is downloaded
DownloadStructured ==
    /\ pc = "structured"
    /\ si <= Len(StructuredRefs(Article))
    /\ LET attachment == StructuredRefs(Article)[si]
           filename   == StructuredFilename(Article, attachment)
       IN  \E resp \in DownloadResponses :
            LET filepath == download_attachment(resp, filename)
            IN  /\ downloads' = Append(downloads,
                        [article |-> ai, kind |-> "structured",
                         url |-> attachment.content_url, filename |-> filename,
                         ok |-> resp.status = 200])
                /\ IF filepath # None
                   THEN /\ files' = WriteFile(files, filepath, ContentOf(attachment.content_url))
                        /\ writes' = Append(writes, filepath)
                        /\ articles' = [articles EXCEPT ![ai].downloaded_attachments =
                                Append(@, [original_url |-> attachment.content_url,
                                           local_path   |-> filepath,
                                           filename     |-> filename])]
                        /\ total_attachments' = total_attachments + 1
                   ELSE UNCHANGED << files, writes, articles, total_attachments >>
    /\ si' = si + 1
    /\ gap' = since
    /\ since' = NoPage
    /\ UNCHANGED << pc, stage, url, all_items, retry_after, categories, sections, ai, ii,
                    attachments, manifest, reqLog >>

\* export_articles: the structured attachments are done; extract_attachments_from_html
\* is called when the article has a body, else the loop goes to the next article
StructuredDone ==
    /\ pc = "structured"
    /\ si > Len(StructuredRefs(Article))
    /\ IF HasList(Article, "body")
       THEN /\ pc' = "inline"
            /\ ii' = 0
            /\ attachments' = <<>>
            /\ UNCHANGED ai
       ELSE /\ pc' = "article"
            /\ ai' = ai + 1
            /\ UNCHANGED << ii, attachments >>
    /\ si' = 0
    /\ UNCHANGED << stage, url, all_items, retry_after, categories, sections, articles,
                    total_attachments, manifest, files, writes, reqLog, downloads,
                    since, gap >>

\* extract_attachments_from_html: the match at index i is downloaded
DownloadInline ==
    /\ pc = "inline"
    /\ ii < Len(Matches(Html))
    /\ LET attachment_id     == Matches(Html)[ii + 1]
           attachment_url    == AttachmentUrl(attachment_id)
           original_filename == OriginalFilename(Html, attachment_id)
           filename          == InlineFilename(Article.id, ii, original_filename)
       IN  \E resp \in DownloadResponses :
            LET filepath == download_attachment(resp, filename)
            IN  /\ downloads' = Append(downloads,
                        [article |-> ai, kind |-> "inline",
                         url |-> attachment_url, filename |-> filename,
                         ok |-> resp.status = 200])
                /\ IF filepath # None
                   THEN /\ files' = WriteFile(files, filepath, ContentOf(attachment_url))
                        /\ writes' = Append(writes, filepath)
                        /\ attachments' = Append(attachments,
                                [attachment_id     |-> attachment_id,
                                 original_url      |-> attachment_url,
                                 local_path        |-> filepath,
                                 filename          |-> filename,
                                 original_filename |-> original_filename])
                   ELSE UNCHANGED << files, writes, attachments >>
    /\ ii' = ii + 1
    /\ gap' = since
    /\ since' = NoPage
    /\ UNCHANGED << pc, stage, url, all_items, retry_after, categories, sections, articles,
                    ai, si, total_attachments, manifest, reqLog >>

\* extract_attachments_from_html returns; export_articles extends the article's
\* downloaded_attachments and goes to the next article
InlineDone ==
    /\ pc = "inline"
    /\ ii >= Len(Matches(Html))
    /\ articles' = [articles EXCEPT ![ai].downloaded_attachments = @ \o attachments]
    /\ total_attachments' = total_attachments + Len(attachments)
    /\ attachments' = <<>>
    /\ ii' = 0
    /\ ai' = ai + 1
    /\ pc' = "article"
    /\ UNCHANGED << stage, url, all_items, retry_after, categories, sections, si,
                    manifest, files, writes, reqLog, downloads, since, gap >>

\* export_articles: the for loop is over, articles.json is written; export_all then
\* calls export_themes
WriteArticles ==
    /\ pc = "article"
    /\ ai > Len(articles)
    /\ files' = WriteFile(files, export_dir \o "/articles.json", articles)
    /\ writes' = Append(writes, export_dir \o "/articles.json")
    /\ stage' = "themes"
    /\ url' = hc_base_url \o "/themes"
    /\ reqLog' = <<>>
    /\ pc' = "request"
    /\ UNCHANGED << all_items, retry_after, categories, sections, articles, ai, si, ii,
                    attachments, total_attachments, manifest, downloads, since, gap >>

\* export_themes: the GET of make_request(f"{hc_base_url}/themes"); any exception is
\* caught by `except Exception`
ThemeRequest ==
    /\ pc = "request"
    /\ stage = "themes"
    /\ \E resp \in Responses(ThemeBodies) :
        LET r == make_request(resp)
        IN  /\ reqLog' = << [url |-> url, status |-> resp.status, body |-> resp.body] >>
            /\ pc' = ThemeOutcomePc(r)
            /\ CASE r.kind = "retry" ->
                     /\ retry_after' = r.wait
                     /\ UNCHANGED << files, writes >>
                 [] r.kind \in {"raise", "None"} ->
                     /\ UNCHANGED << files, writes, retry_after >>
                 [] r.kind = "json" ->
                     /\ IF ~Falsy(r.data)
                        THEN /\ files' = WriteFile(files, export_dir \o "/themes.json", r.data)
                             /\ writes' = Append(writes, export_dir \o "/themes.json")
                        ELSE UNCHANGED << files, writes >>
                     /\ UNCHANGED retry_after
    /\ gap' = since
    /\ since' = NoPage
    /\ UNCHANGED << stage, url, all_items, categories, sections, articles, ai, si, ii,
                    attachments, total_attachments, manifest, downloads >>

\* export_all: the manifest is updated with the totals and manifest.json is written
WriteManifest ==
    /\ pc = "manifest"
    /\ LET updated == [total_categories |-> Len(categories),
                       total_sections   |-> Len(sections),
                       total_articles   |-> Len(articles)] @@ manifest
       IN  /\ manifest' = updated
           /\ files' = WriteFile(files, export_dir \o "/manifest.json", updated)
    /\ writes' = Append(writes, export_dir \o "/manifest.json")
    /\ pc' = "done"
    /\ stage' = "export_all"
    /\ url' = None
    /\ UNCHANGED << all_items, retry_after, categories, sections, articles, ai, si, ii,
                    attachments, total_attachments, reqLog, downloads, since, gap >>

Next ==
    \/ ExportAllStart
    \/ FetchPage
    \/ Backoff
    \/ Pacing
    \/ ExportCategoriesWrite
    \/ ExportSectionsWrite
    \/ ArticlesFetched
    \/ ArticleBegin
    \/ DownloadStructured
    \/ StructuredDone
    \/ DownloadInline
    \/ InlineDone
    \/ WriteArticles
    \/ ThemeRequest
    \/ WriteManifest

Spec == Init /\ [][Next]_vars

-----------------------------------------------------------------------------
(* What the specification says, stated over the histories *)

InListing == stage \in Listings /\ pc \in {"request", "backoff", "pacing", "return", "crashed"}

\* the items a page carries under the listing key; a missing key is an empty page
ItemsUnder(body, key) == IF key \in DOMAIN body THEN body[key] ELSE <<>>
\* the cursor a page carries; a missing or null next_page is no cursor
CursorOf(body) == IF "next_page" \in DOMAIN body THEN body["next_page"] ELSE None

\* the concatenation, in request order, of the items of the pages answered 200
RECURSIVE ConcatPages(_, _)
ConcatPages(log, key) ==
    IF log = <<>> THEN <<>>
    ELSE (IF Head(log).status = 200 THEN ItemsUnder(Head(log).body, key) ELSE <<>>)
         \o ConcatPages(Tail(log), key)

RECURSIVE SumLen(_, _)
SumLen(log, key) ==
    IF log = <<>> THEN 0
    ELSE (IF Head(log).status = 200 THEN Len(ItemsUnder(Head(log).body, key)) ELSE 0)
         + SumLen(Tail(log), key)

Last(seq) == seq[Len(seq)]
Front(seq) == SubSeq(seq, 1, Len(seq) - 1)
Failed(entry) == entry.status \notin {200, 429}

\* C1: what get_all_paginated has collected, and returns, is the concatenation in
\* fetch order of the items under `key` of every page fetched with success, pages
\* kept in their own order, nothing sorted or dropped; its length is the sum of the
\* page sizes, and a failed page adds nothing.
C1_ReturnIsConcatenation ==
    InListing =>
        /\ all_items = ConcatPages(reqLog, stage)
        /\ Len(all_items) = SumLen(reqLog, stage)
        /\ (reqLog # <<>> /\ Failed(Last(reqLog))) =>
                all_items = ConcatPages(Front(reqLog), stage)

\* C1 witness: an articles listing returns after two pages and a failed third
\* request, with the second page's items out of id order and a repeated item kept
C1_Witness ==
    /\ pc = "return"
    /\ stage = "articles"
    /\ Len(reqLog) = 3
    /\ reqLog[1].status = 200 /\ ItemsUnder(reqLog[1].body, "articles") = <<Art2>>
    /\ reqLog[2].status = 200 /\ ItemsUnder(reqLog[2].body, "articles") = <<Art2>>
    /\ reqLog[3].status = 500
    /\ all_items = <<Art2, Art2>>

\* what holds of the retries that are made: a retry goes to the same URL, the
\* cursor and the items stay as they were while the run waits, the run never
\* returns on a 429, and k 429s followed by a 200 are k+1 requests to that URL with
\* the page's items appended once
RetriesKeepTheRequest ==
    InListing =>
        /\ \A i \in 1..Len(reqLog) - 1 :
              reqLog[i].status = 429 => reqLog[i + 1].url = reqLog[i].url
        /\ pc = "backoff" =>
              /\ Last(reqLog).status = 429
              /\ url = Last(reqLog).url
              /\ all_items = ConcatPages(Front(reqLog), stage)
        /\ (pc = "request" /\ reqLog # <<>> /\ Last(reqLog).status = 429) =>
              url = Last(reqLog).url
        /\ pc \in {"return", "pacing"} => Last(reqLog).status # 429
        /\ \A j \in 1..Len(reqLog) :
              reqLog[j].status = 200 =>
                LET k == Cardinality({i \in 1..j - 1 :
                              \A m \in i..j - 1 : reqLog[m].status = 429})
                IN  /\ Cardinality({i \in j - k..j : reqLog[i].url = reqLog[j].url}) = k + 1
                    /\ SumLen(SubSeq(reqLog, j - k, j), stage)
                         = Len(ItemsUnder(reqLog[j].body, stage))
                    /\ Len(all_items) >= SumLen(SubSeq(reqLog, 1, j), stage)

\* C2 as the specification states it: a 429 is always followed, after the wait, by
\* another request to the same URL with the cursor where it was, so that a 429 and
\* then a 200 are two requests and one copy of the page, and k 429s and a 200 are
\* k+1 requests.
C2_RateLimitedRequestIsRetried ==
    /\ RetriesKeepTheRequest
    /\ (InListing /\ reqLog # <<>> /\ Last(reqLog).status = 429) =>
            pc \in {"backoff", "request"}

\* C5 as the specification states it: during one get_all_paginated run no page
\* URL is fetched with success, and its items appended, more than once, whatever
\* next_page values the server returns.
C5_NeverRevisits ==
    InListing =>
        \A i, j \in 1..Len(reqLog) :
            (i < j /\ reqLog[i].status = 200 /\ reqLog[j].status = 200)
                => reqLog[i].url # reqLog[j].url

\* C5, amended: the run requests the endpoint's URL first and, after each page
\* fetched with success, exactly the next_page that page carried, stopping when
\* there is none; so a URL is fetched with success twice only when a next_page the
\* server returned in between names that URL again.
C5_FollowsServerCursor ==
    InListing =>
        /\ reqLog # <<>> => reqLog[1].url = EndpointUrl(stage)
        /\ \A i \in 1..Len(reqLog) - 1 :
              reqLog[i].status = 200 =>
                /\ reqLog[i].body # EmptyDict
                /\ UrlTruthy(CursorOf(reqLog[i].body))
                /\ reqLog[i + 1].url = CursorOf(reqLog[i].body)
        /\ (reqLog # <<>> /\ Last(reqLog).status = 200 /\ pc \in {"pacing", "request"}) =>
              url = CursorOf(Last(reqLog).body)
        /\ (reqLog # <<>> /\ Last(reqLog).status = 200 /\ pc = "return") =>
              \/ Last(reqLog).body = EmptyDict
              \/ ~UrlTruthy(CursorOf(Last(reqLog).body))
        /\ \A i, j \in 1..Len(reqLog) :
              (i < j /\ reqLog[i].status = 200 /\ reqLog[j].status = 200
                     /\ reqLog[i].url = reqLog[j].url)
                => \E m \in i..j - 1 : /\ reqLog[m].status = 200
                                       /\ CursorOf(reqLog[m].body) = reqLog[j].url

\* C5 witness: the second page's next_page names the second page again, and the
\* run has fetched it a second time and appended its item a second time
C5_Witness ==
    /\ pc = "pacing"
    /\ stage = "sections"
    /\ Len(reqLog) = 3
    /\ reqLog[1].status = 200 /\ reqLog[2].status = 200 /\ reqLog[3].status = 200
    /\ reqLog[2].url = reqLog[3].url
    /\ CursorOf(reqLog[2].body) = reqLog[2].url
    /\ Len(ItemsUnder(reqLog[2].body, "sections")) = 1
    /\ Len(all_items) = 2

\* a failed request is the last request of its listing: get_all_paginated returns
\* with the items of the earlier pages and raises nothing
FailureEndsListing ==
    (InListing /\ reqLog # <<>> /\ Failed(Last(reqLog))) =>
        /\ pc = "return"
        /\ all_items = ConcatPages(Front(reqLog), stage)
        /\ \A i \in 1..Len(reqLog) - 1 : ~Failed(reqLog[i])

\* the orchestrator's step after such a return stores and writes what was returned
\* and enters the next export stage
FailureThenNextStage ==
    (pc = "return" /\ Failed(Last(reqLog))) =>
        CASE stage = "categories" ->
                /\ stage' = "sections" /\ pc' = "request"
                /\ categories' = all_items
                /\ files'[export_dir \o "/categories.json"] = all_items
          [] stage = "sections" ->
                /\ stage' = "articles" /\ pc' = "request"
                /\ sections' = all_items
                /\ files'[export_dir \o "/sections.json"] = all_items
          [] stage = "articles" ->
                /\ pc' = "article"
                /\ articles' = all_items

\* C6: a failed request (connection error or a status other than 2xx and 429),
\* also after 429 retries of the same page, is the last request of its listing;
\* get_all_paginated raises nothing and returns the items of the earlier pages, and
\* the orchestrator goes on with the next export stage.
C6_FailureTruncatesListing == []FailureEndsListing /\ [][FailureThenNextStage]_vars

\* C6 witness: a listing returns one item after a first page, a 429 and a 500 on
\* the second page
C6_Witness ==
    /\ pc = "return"
    /\ stage = "categories"
    /\ Len(reqLog) = 3
    /\ reqLog[1].status = 200 /\ reqLog[2].status = 429 /\ reqLog[3].status = 500
    /\ reqLog[2].url = reqLog[3].url
    /\ Len(all_items) = 1

\* every Downloaded Attachment Record produced so far, across all articles
RECURSIVE RecordsOf(_)
RecordsOf(arts) ==
    IF arts = <<>> THEN <<>>
    ELSE (IF "downloaded_attachments" \in DOMAIN Head(arts)
          THEN Head(arts).downloaded_attachments ELSE <<>>)
         \o RecordsOf(Tail(arts))
AllRecords == RecordsOf(articles) \o attachments

\* C4 as the specification states it: the records produced so far have pairwise
\* distinct local filenames, so no download overwrites the file of another record.
C4_UniqueFilenames ==
    \A i, j \in 1..Len(AllRecords) :
        i # j => AllRecords[i].filename # AllRecords[j].filename

\* the download attempts made for the article at position a
Attempts(a, kind) == SelectSeq(downloads, LAMBDA d : d.article = a /\ d.kind = kind)
UrlAndName(seq) == [n \in 1..Len(seq) |-> << seq[n].url, seq[n].filename >>]

\* the references the URL pattern finds in an article's body, in order of appearance
PatternMatches(article) ==
    IF "body" \in DOMAIN article
    THEN SelectSeq(article.body, LAMBDA t : t.host = SupportHost)
    ELSE <<>>
\* the name recovered for a reference: the alt text of an image with that URL,
\* else attachment_{id}
RecoveredName(article, ref) ==
    LET imgs == SelectSeq(article.body, LAMBDA t : t.tag = "img" /\ t.host = ref.host
                                                   /\ t.id = ref.id)
    IN  IF imgs # <<>> THEN imgs[1].alt ELSE "attachment_" \o ref.id
\* what the specification expects for the i-th match: its URL and {article_id}_{i}_{name}
ExpectedInline(article) ==
    LET refs == PatternMatches(article)
    IN  [n \in 1..Len(refs) |->
            << "https://support.userology.co/hc/article_attachments/" \o refs[n].id,
               ToString(article.id) \o "_" \o ToString(n) \o "_"
                    \o RecoveredName(article, refs[n]) >>]
InlineRecords(article) ==
    SelectSeq(article.downloaded_attachments, LAMBDA r : "attachment_id" \in DOMAIN r)

\* C7: the i-th match of an article's body (i = 1..k, repeated URLs counted
\* apart) is downloaded once, under {article_id}_{i}_{name}, whether or not the
\* earlier downloads succeeded; the records are those of the successful ones, and
\* two records of one article never share a filename, also when they share a URL.
C7_InlineSequenceNumbers ==
    \A a \in 1..Len(articles) :
        LET got == Attempts(a, "inline")
            exp == ExpectedInline(articles[a])
        IN  /\ a < ai => UrlAndName(got) = exp
            /\ (a = ai /\ pc = "inline") => UrlAndName(got) = SubSeq(exp, 1, ii)
            /\ (a > ai \/ (a = ai /\ pc # "inline")) => got = <<>>
            /\ a < ai =>
                 LET recs == InlineRecords(articles[a])
                 IN  /\ [n \in 1..Len(recs) |-> << recs[n].original_url, recs[n].filename >>]
                          = UrlAndName(SelectSeq(got, LAMBDA d : d.ok))
                     /\ \A m, n \in 1..Len(recs) : m # n => recs[m].filename # recs[n].filename
            /\ (a < ai /\ articles[a].id = 2) =>
                 UrlAndName(got)
                   = << << "https://support.userology.co/hc/article_attachments/5", "2_1_shot.png" >>,
                        << "https://support.userology.co/hc/article_attachments/5", "2_2_shot.png" >> >>

\* C7 witness: an article whose body references attachment 5 twice is done; the
\* first download failed, the second succeeded and its record is numbered 2; a
\* second such article has both records
C7_Witness ==
    /\ Len(articles) = 2 /\ ai = 3
    /\ articles[1].id = 2 /\ articles[2].id = 2
    /\ [n \in 1..Len(Attempts(1, "inline")) |-> Attempts(1, "inline")[n].ok] = << FALSE, TRUE >>
    /\ Len(InlineRecords(articles[1])) = 1
    /\ InlineRecords(articles[1])[1].filename = "2_2_shot.png"
    /\ Len(InlineRecords(articles[2])) = 2
    /\ InlineRecords(articles[2])[1].original_url = InlineRecords(articles[2])[2].original_url
    /\ InlineRecords(articles[2])[1].filename = "2_1_shot.png"
    /\ InlineRecords(articles[2])[2].filename = "2_2_shot.png"

\* C8: a failed download adds no record and stops nothing: every reference of
\* every article is attempted, structured ones first, each finished article's
\* downloaded_attachments holds one record per successful attempt in that order,
\* the run never fails once downloads have begun, and articles.json holds every
\* article with its records.
C8_FailedDownloadDropsOneRecord ==
    /\ \A a \in 1..Len(articles) :
          a < ai =>
            LET all  == SelectSeq(downloads, LAMBDA d : d.article = a)
                recs == articles[a].downloaded_attachments
            IN  /\ all = Attempts(a, "structured") \o Attempts(a, "inline")
                /\ Len(Attempts(a, "structured"))
                     = (IF "attachments" \in DOMAIN articles[a]
                        THEN Len(articles[a].attachments) ELSE 0)
                /\ Len(Attempts(a, "inline")) = Len(PatternMatches(articles[a]))
                /\ [n \in 1..Len(recs) |-> << recs[n].original_url, recs[n].filename >>]
                     = UrlAndName(SelectSeq(all, LAMBDA d : d.ok))
    /\ pc = "crashed" => downloads = <<>>
    /\ (export_dir \o "/articles.json") \in DOMAIN files =>
          /\ ai = Len(articles) + 1
          /\ files[export_dir \o "/articles.json"] = articles
          /\ \A a \in 1..Len(articles) : "downloaded_attachments" \in DOMAIN articles[a]

\* C8 witness: articles.json is written; the first article lost its structured
\* download and its first inline download and kept the last one, and the article
\* after it was still processed and has a record
C8_Witness ==
    /\ (export_dir \o "/articles.json") \in DOMAIN files
    /\ Len(articles) = 2
    /\ articles[1].id = 2
    /\ [n \in 1..Len(downloads) |-> downloads[n].ok]
         = << FALSE, FALSE, TRUE, FALSE, TRUE >>
    /\ Len(articles[1].downloaded_attachments) = 1
    /\ articles[2].id = 1
    /\ Len(articles[2].downloaded_attachments) = 1

CategoriesJson == export_dir \o "/categories.json"
SectionsJson == export_dir \o "/sections.json"
ArticlesJson == export_dir \o "/articles.json"
ThemesJson == export_dir \o "/themes.json"
ManifestJson == export_dir \o "/manifest.json"
StageFiles == {CategoriesJson, SectionsJson, ArticlesJson, ThemesJson, ManifestJson}
Written(path) == \E i \in 1..Len(writes) : writes[i] = path
TimesWritten(path) == Cardinality({i \in 1..Len(writes) : writes[i] = path})
StageWrites == SelectSeq(writes, LAMBDA w : w \in StageFiles)
IsPrefix(s, t) == Len(s) <= Len(t) /\ s = SubSeq(t, 1, Len(s))

\* C3 as the specification states it: whatever the server answers, the run does
\* not stop before manifest.json is written.
C3_AlwaysWritesManifest ==
    pc \in {"done", "crashed"} => Written(ManifestJson)

\* the order of the stages (C9): each listing is fetched before its file is written,
\* attachments are downloaded between sections.json and articles.json, the theme
\* request comes after articles.json, its failure is never fatal and themes.json is
\* written only when it succeeds, and manifest.json is written at most once, last
C9_StagesInOrder ==
    /\ \/ IsPrefix(StageWrites, << CategoriesJson, SectionsJson, ArticlesJson,
                                   ThemesJson, ManifestJson >>)
       \/ IsPrefix(StageWrites, << CategoriesJson, SectionsJson, ArticlesJson,
                                   ManifestJson >>)
    /\ \A i \in 1..Len(writes) :
          writes[i] \notin StageFiles =>
            /\ \E j \in 1..i - 1 : writes[j] = SectionsJson
            /\ \A j \in 1..i - 1 : writes[j] # ArticlesJson
    /\ Written(CategoriesJson) <=> stage \notin {"export_all", "categories"} \/ pc = "done"
    /\ Written(CategoriesJson) => files[CategoriesJson] = categories
    /\ Written(SectionsJson) <=> stage \in {"articles", "themes"} \/ pc = "done"
    /\ Written(SectionsJson) => files[SectionsJson] = sections
    /\ Written(ArticlesJson) <=> stage = "themes" \/ pc = "done"
    /\ Written(ArticlesJson) => files[ArticlesJson] = articles
    /\ downloads # <<>> => stage \in {"articles", "themes"} \/ pc = "done"
    /\ Written(ThemesJson) =>
          /\ pc \in {"manifest", "done"}
          /\ reqLog[1].status = 200 /\ reqLog[1].body # EmptyDict
          /\ files[ThemesJson] = reqLog[1].body
    /\ (pc \in {"manifest", "done"} /\ ~Written(ThemesJson)) =>
          reqLog[1].status # 200 \/ reqLog[1].body = EmptyDict
    /\ pc = "crashed" => stage \in Listings
    /\ TimesWritten(ManifestJson) <= 1
    /\ Written(ManifestJson) <=> pc = "done"
    /\ pc = "done" =>
          /\ Last(writes) = ManifestJson
          /\ files[ManifestJson] = manifest
          /\ manifest.total_categories = Len(categories)
          /\ manifest.total_sections = Len(sections)
          /\ manifest.total_articles = Len(articles)

C10_PacingAfterEveryPageRequest ==
    gap.outcome # "none" => gap.slept = << "pacing" >>

\* C10, amended: a page request answered with a non-empty JSON object is followed
\* by the pacing delay before the next GET; one that fails or is answered with an
\* empty object is followed by no delay; one answered 429 is followed by the
\* back-off wait alone; the run sleeps nowhere else.
C10_PacingOnlyAfterFetchedPage ==
    /\ gap.outcome = "ok" => gap.slept = << "pacing" >>
    /\ gap.outcome \in {"fail", "empty"} => gap.slept = <<>>
    /\ gap.outcome = "429" => gap.slept = << "backoff" >>
    /\ gap.outcome = "none" => gap.slept \in {<<>>, << "backoff" >>}
    /\ pc = "pacing" => since = [outcome |-> "ok", slept |-> <<>>]
    /\ pc = "backoff" => since.slept = <<>> /\ since.outcome = (IF stage = "themes" THEN "none" ELSE "429")

\* C10 witness: the first request of the sections listing was issued right after
\* the failed last request of the categories listing, with no sleep in between
C10_Witness ==
    /\ stage = "sections"
    /\ Len(reqLog) = 1
    /\ gap = [outcome |-> "fail", slept |-> <<>>]

====
